---- MODULE Spec2Model ----
(***************************************************************************)
(* Model of backend/authentication: the password-reset token lifecycle     *)
(* (views.PasswordResetRequestView, views.PasswordResetConfirmView,        *)
(* serializers.PasswordResetConfirmSerializer, models.PasswordResetToken)  *)
(* the login audit (views.LoginView), registration, change of password,   *)
(* the profile endpoints and the admin classes of admin.py.                *)
(*                                                                         *)
(* Time is counted in hours.  get_random_string(64) is modelled as a       *)
(* source of fresh strings: the n-th string it returns is the number n,    *)
(* so a token string also identifies its row (the primary key).            *)
(* The database runs in Django's default autocommit mode: the views open   *)
(* no transaction, so every ORM statement is committed on its own.         *)
(***************************************************************************)
EXTENDS Integers, Sequences, FiniteSets, TLC

\* ------------------------------------------------------------------ bounds
\* the number of token strings get_random_string hands out in a run
MaxTokens == 3
\* reset requests are accepted while clock <= MaxIssueClock
MaxIssueClock == 1
\* requests served in a run of the concurrent specification
MaxRequests == 3
\* the number of keys Token.generate_key hands out in a run
MaxKeys == 3

\* views.py:299  timezone.timedelta(hours=24)
TokenLifetimeHours == 24

MaxClock == MaxIssueClock + TokenLifetimeHours + 1

\* ------------------------------------------------------------ input domains
Usernames == {"alice", "bob", "carol"}
UsernameInputs == Usernames \cup {"mallory"}
Passwords == {"pw1", "pw2"}
Emails == {"alice@k.org", "bob@k.org", "carol@k.org", "nobody@k.org"}
Procs == {"r1", "r2"}
TokenInputs == 1..MaxTokens

VARIABLES
    users,          \* auth_user: username -> [email, password, is_active]
    profiles,       \* authentication_userprofile: the usernames owning a row
    authTokens,     \* authtoken_token: set of rows [user, key]
    resetTokens,    \* authentication_passwordresettoken: set of rows
    loginAttempts,  \* authentication_loginattempt: sequence of rows
    clock,          \* timezone.now(), in hours
    nextToken,      \* how many strings get_random_string has returned
    nextKey,        \* how many keys Token.generate_key has returned
    pwSetBy,        \* history: stored tokens whose confirm saved the password
    last,           \* the response of the last request served one at a time
    pc,             \* concurrent requests: the statement each worker is at
    req,            \* concurrent requests: each worker's locals and response
    reg,            \* concurrent requests: the locals of RegisterView.post
    served          \* concurrent requests: how many have been started

vars == <<users, profiles, authTokens, resetTokens, loginAttempts, clock,
          nextToken, nextKey, pwSetBy, last, pc, req, reg, served>>

dbVars == <<users, profiles, authTokens, nextKey, resetTokens, loginAttempts>>
concVars == <<pc, req, reg, served>>

\* --------------------------------------------------------- password hashing
\* User.set_password stores make_password(raw), never the raw password
MakePassword(raw) == <<"pbkdf2_sha256", raw>>

\* User.check_password(raw)
CheckPassword(row, raw) == row.password = MakePassword(raw)

\* --------------------------------------------------- models.PasswordResetToken
\* mutant: the expiry instant itself already counts as expired
IsExpired_Inclusive(tok, now) == now >= tok.expires_at

IsExpired(tok, now) == now > tok.expires_at

IsValid(tok, now) == ~tok.is_used /\ ~IsExpired(tok, now)

\* PasswordResetToken.objects.filter(token=value)
TokenRows(toks, value) == {r \in toks : r.token = value}

\* PasswordResetToken.objects.get(token=value); the column is unique
GetToken(toks, value) == CHOOSE r \in toks : r.token = value

\* mutant: the earlier tokens are kept
DeleteTokensOf_Kept(toks, u) == toks

\* mutant: the earlier tokens are superseded (marked used), not deleted
DeleteTokensOf_MarkUsed(toks, u) ==
    {IF r.user = u THEN [r EXCEPT !.is_used = TRUE] ELSE r : r \in toks}

\* mutant: the earlier tokens are kept and made usable again
DeleteTokensOf_Reset(toks, u) ==
    {IF r.user = u THEN [r EXCEPT !.is_used = FALSE] ELSE r : r \in toks}

\* PasswordResetToken.objects.filter(user=user).delete()
DeleteTokensOf(toks, u) == {r \in toks : r.user # u}

\* PasswordResetToken.objects.create(user=, token=, expires_at=);
\* is_used takes its default, created_at is auto_now_add
CreateToken(toks, u, tokenString, expires_at, now) ==
    toks \cup {[token |-> tokenString, user |-> u, is_used |-> FALSE,
                expires_at |-> expires_at, created_at |-> now]}

\* mutant: the used mark is never written
SaveToken_Lost(toks, obj) == toks

\* token_obj.save(): UPDATE the row of this primary key, INSERT it when the
\* UPDATE matched no row (Model.save without force_update)
SaveToken(toks, obj) == {r \in toks : r.token # obj.token} \cup {obj}

\* ------------------------------------------------------------------ signals
\* mutant: no receiver is connected to post_save
SaveUserProfile_None(profs, u) == profs

\* post_save(User): create_user_profile / save_user_profile leave the saved
\* user with a profile row
SaveUserProfile(profs, u) == profs \cup {u}

\* user.set_password(new_password); user.save(), with its post_save signals
SetPassword(us, u, raw) == [us EXCEPT ![u].password = MakePassword(raw)]

\* -------------------------------------------------------------- serializers
\* PasswordResetRequestSerializer.validate_email
ValidateEmail(us, email) ==
    \E u \in DOMAIN us : us[u].email = email /\ us[u].is_active

\* mutant: the token is issued to an account with another email
UserByEmail_Other(us, email) == CHOOSE u \in DOMAIN us : us[u].email # email

\* PasswordResetRequestView.post: what the response tells the caller, 200
\* 'Password reset email sent successfully' or 400 with the error of
\* validate_email
RequestOutcome(us, email) ==
    IF ValidateEmail(us, email) THEN "ok" ELSE "EmailNotFound"

\* User.objects.get(email=email)
UserByEmail(us, email) == CHOOSE u \in DOMAIN us : us[u].email = email

\* PasswordResetConfirmSerializer.validate_token
ValidateToken(toks, now, value) ==
    IF TokenRows(toks, value) = {} THEN "TokenNotFound"
    ELSE IF ~IsValid(GetToken(toks, value), now) THEN "TokenInvalid"
    ELSE "ok"

\* mutant: validate(attrs) does not compare the two passwords
ConfirmIsValid_NoCompare(toks, now, value, new_password, new_password_confirm) ==
    ValidateToken(toks, now, value)

\* PasswordResetConfirmSerializer.is_valid(): the field validators run first,
\* validate(attrs) runs only when no field failed
ConfirmIsValid(toks, now, value, new_password, new_password_confirm) ==
    IF ValidateToken(toks, now, value) # "ok"
    THEN ValidateToken(toks, now, value)
    ELSE IF new_password # new_password_confirm THEN "PasswordMismatch"
    ELSE "ok"

\* django.contrib.auth.authenticate with the default ModelBackend: the user
\* whose password matches and who may authenticate (is_active), else None
Authenticate(us, username, raw) ==
    IF username \in DOMAIN us /\ CheckPassword(us[username], raw)
       /\ us[username].is_active
    THEN username ELSE "None"

\* LoginSerializer.validate
LoginIsValid(us, username, raw) ==
    IF Authenticate(us, username, raw) = "None" THEN "InvalidCredentials"
    ELSE IF ~us[Authenticate(us, username, raw)].is_active
    THEN "AccountDisabled"
    ELSE "ok"

\* RegisterSerializer.is_valid(): the unique validator of the username field
\* runs first, validate(attrs) runs only when no field failed
RegisterIsValid(us, username, email, password, password_confirm) ==
    IF username \in DOMAIN us THEN "UsernameTaken"
    ELSE IF password # password_confirm THEN "PasswordMismatch"
    ELSE IF username \in DOMAIN us THEN "UsernameTaken"
    ELSE IF \E u \in DOMAIN us : us[u].email = email THEN "EmailTaken"
    ELSE "ok"

\* RegisterSerializer.create: User.objects.create_user(**validated_data)
CreateUser(us, username, email, password) ==
    [u \in DOMAIN us \cup {username} |->
        IF u = username
        THEN [email |-> email, password |-> MakePassword(password),
              is_active |-> TRUE]
        ELSE us[u]]

\* PasswordChangeSerializer.is_valid(): validate_old_password, then validate
PasswordChangeIsValid(us, u, old_password, new_password, confirm) ==
    IF ~CheckPassword(us[u], old_password) THEN "WrongOldPassword"
    ELSE IF new_password # confirm THEN "PasswordMismatch"
    ELSE "ok"

\* ------------------------------------------------------- authtoken.Token
\* Token.objects.filter(user=user)
AuthTokensOf(toks, u) == {r \in toks : r.user = u}

\* Token.objects.get_or_create(user=user): the row of the user, created with
\* a freshly generated key when there is none
GetOrCreateAuthToken(toks, u, key) ==
    IF AuthTokensOf(toks, u) # {} THEN toks
    ELSE toks \cup {[user |-> u, key |-> key]}

\* mutant: the earlier token of the user is kept
DeleteAuthTokensOf_Kept(toks, u) == toks

\* Token.objects.filter(user=user).delete(), request.user.auth_token.delete()
DeleteAuthTokensOf(toks, u) == {r \in toks : r.user # u}

\* ---------------------------------------------------------------- responses
\* op, who: the request; token: the token of the response body (token.key),
\* for the reset views the token string the request is about; res: the
\* outcome; created (history): the profile rows the request inserted
NoResponse == [op |-> "none", who |-> "", token |-> 0, res |-> "",
               created |-> 0]

Response(op, who, token, res) ==
    [op |-> op, who |-> who, token |-> token, res |-> res, created |-> 0]

ResponseCreating(op, who, token, res, before, after) ==
    [op |-> op, who |-> who, token |-> token, res |-> res,
     created |-> Cardinality(after \ before)]

\* token.key of the row Token.objects.get_or_create(user=user) returned
KeyOf(toks, u) == (CHOOSE r \in toks : r.user = u).key

\* ------------------------------------------------------------- LoginView
\* the attributes a LoginView instance has: those of the class body
LoginViewAttrs == {"permission_classes", "post", "_log_login_attempt"}

\* LoginView._log_login_attempt: the arguments of LoginAttempt.objects.create
\* are evaluated inside the try; self._get_client_ip raises AttributeError
\* when the view has no such attribute, and the except swallows it
LogLoginAttempt(attempts, username, success, now) ==
    IF "_get_client_ip" \in LoginViewAttrs
    THEN Append(attempts, [username |-> username, success |-> success,
                           timestamp |-> now])
    ELSE attempts

\* what evaluating the arguments of LoginAttempt.objects.create raises
LogLoginAttemptRaises ==
    IF "_get_client_ip" \in LoginViewAttrs THEN "none" ELSE "AttributeError"

\* mutant: the handler catches database errors only
Excepted_DatabaseOnly(exc) == exc \in {"DatabaseError"}

\* views.py:111 except Exception
Excepted(exc) == exc \in {"AttributeError", "DatabaseError"}

\* the exception _log_login_attempt lets through to LoginView.post
LogLoginAttemptPropagates ==
    IF LogLoginAttemptRaises = "none" \/ Excepted(LogLoginAttemptRaises)
    THEN "none" ELSE LogLoginAttemptRaises

\* a worker's locals: the response fields, and the view's local variables
NoRow == [token |-> 0, user |-> "", is_used |-> FALSE,
          expires_at |-> 0, created_at |-> 0]

Locals(op, who, token, res, new_password, expires_at, token_obj) ==
    [op |-> op, who |-> who, token |-> token, res |-> res,
     new_password |-> new_password, expires_at |-> expires_at,
     token_obj |-> token_obj]

Responded(op, who, token, res) == Locals(op, who, token, res, "", 0, NoRow)

\* the locals of RegisterView.post: the validated data
NoRegistration == [username |-> "", email |-> "", password |-> ""]

\* --------------------------------------------------------------------- Init
InitTables ==
    /\ users = [u \in Usernames |->
                  [email |-> (CASE u = "alice" -> "alice@k.org"
                                [] u = "bob" -> "bob@k.org"
                                [] OTHER -> "carol@k.org"),
                   password |-> MakePassword("pw1"),
                   is_active |-> (u # "carol")]]
    /\ profiles = Usernames
    /\ authTokens = {}
    /\ resetTokens = {}
    /\ clock = 0
    /\ nextToken = 0
    /\ nextKey = 0
    /\ pwSetBy = {}

InitDb ==
    /\ InitTables
    /\ loginAttempts = <<>>

InitWorkers ==
    /\ last = NoResponse
    /\ pc = [p \in Procs |-> "idle"]
    /\ req = [p \in Procs |-> Responded("none", "", 0, "")]
    /\ reg = [p \in Procs |-> NoRegistration]
    /\ served = 0

Init == InitDb /\ InitWorkers

\* ------------------------------------------- requests served one at a time
\* PasswordResetRequestView.post
PasswordResetRequest(email) ==
    /\ UNCHANGED <<users, profiles, authTokens, nextKey, loginAttempts, clock>>
    /\ UNCHANGED concVars
    /\ IF RequestOutcome(users, email) = "ok"
       THEN /\ nextToken < MaxTokens
            /\ clock <= MaxIssueClock
            /\ LET user == UserByEmail(users, email)
                   token == nextToken + 1
                   expires_at == clock + TokenLifetimeHours
               IN /\ resetTokens' = CreateToken(
                         DeleteTokensOf(resetTokens, user),
                         user, token, expires_at, clock)
                  /\ pwSetBy' = {t \in pwSetBy :
                         TokenRows(DeleteTokensOf(resetTokens, user), t) # {}}
                  /\ nextToken' = token
                  /\ last' = Response("request", email, token,
                                      RequestOutcome(users, email))
       ELSE /\ UNCHANGED <<resetTokens, pwSetBy, nextToken>>
            /\ last' = Response("request", email, 0,
                                RequestOutcome(users, email))

\* PasswordResetConfirmView.post
PasswordResetConfirm(token, new_password, new_password_confirm) ==
    /\ UNCHANGED <<authTokens, nextKey, loginAttempts, clock, nextToken>>
    /\ UNCHANGED concVars
    /\ LET out == ConfirmIsValid(resetTokens, clock, token,
                                 new_password, new_password_confirm)
       IN IF out = "ok"
          THEN LET token_obj == GetToken(resetTokens, token)
                   user == token_obj.user
               IN /\ users' = SetPassword(users, user, new_password)
                  /\ profiles' = SaveUserProfile(profiles, user)
                  /\ resetTokens' = SaveToken(resetTokens,
                         [token_obj EXCEPT !.is_used = TRUE])
                  /\ pwSetBy' = pwSetBy \cup {token}
                  /\ last' = Response("confirm", user, token, "ok")
          ELSE /\ UNCHANGED <<users, profiles, resetTokens, pwSetBy>>
               /\ last' = Response("confirm", "", token, out)

\* LoginView.post; every statement commits on its own (autocommit), so an
\* exception leaves the effects of the statements before it
Login(username, raw) ==
    /\ UNCHANGED <<users, resetTokens, clock, nextToken, pwSetBy>>
    /\ UNCHANGED concVars
    /\ LET out == LoginIsValid(users, username, raw)
           exc == LogLoginAttemptPropagates
       IN IF out = "ok"
          THEN LET user == Authenticate(users, username, raw)
                   \* login(request, user) saves last_login: post_save signals
                   signalled == SaveUserProfile(profiles, user)
                   token == GetOrCreateAuthToken(authTokens, user, nextKey + 1)
               IN /\ token # authTokens => nextKey < MaxKeys
                  /\ authTokens' = token
                  /\ nextKey' = IF token = authTokens THEN nextKey
                                ELSE nextKey + 1
                  /\ loginAttempts' =
                        LogLoginAttempt(loginAttempts, user, TRUE, clock)
                  /\ IF exc = "none"
                     THEN \* the view creates the profile if it is missing
                          /\ profiles' = signalled \cup {user}
                          /\ last' = ResponseCreating("login", username,
                                KeyOf(token, user), "ok", profiles, profiles')
                     ELSE /\ profiles' = signalled
                          /\ last' = ResponseCreating("login", username, 0,
                                "ServerError", profiles, profiles')
          ELSE /\ UNCHANGED <<profiles, authTokens, nextKey>>
               /\ loginAttempts' =
                     LogLoginAttempt(loginAttempts, username, FALSE, clock)
               /\ last' = Response("login", username, 0,
                                   IF exc = "none" THEN out ELSE "ServerError")

\* LogoutView.post, for a caller authenticated by its token
Logout(username) ==
    /\ AuthTokensOf(authTokens, username) # {}
    /\ authTokens' = DeleteAuthTokensOf(authTokens, username)
    /\ last' = Response("logout", username, 0, "ok")
    /\ UNCHANGED <<users, profiles, resetTokens, loginAttempts, clock,
                   nextToken, nextKey, pwSetBy>>
    /\ UNCHANGED concVars

\* permissions.IsAuthenticated: the caller presents the token of its row
IsAuthenticated(username) == AuthTokensOf(authTokens, username) # {}

\* RegisterView.post
Register(username, email, password, password_confirm) ==
    /\ UNCHANGED <<resetTokens, loginAttempts, clock, nextToken, pwSetBy>>
    /\ UNCHANGED concVars
    /\ LET out == RegisterIsValid(users, username, email,
                                  password, password_confirm)
       IN IF out = "ok"
          THEN LET token == GetOrCreateAuthToken(authTokens, username,
                                                 nextKey + 1)
               IN /\ nextKey < MaxKeys
                  /\ users' = CreateUser(users, username, email, password)
                  \* post_save signals of create_user and of login()
                  /\ profiles' = SaveUserProfile(profiles, username)
                  /\ authTokens' = token
                  /\ nextKey' = nextKey + 1
                  /\ last' = ResponseCreating("register", username,
                        KeyOf(token, username), "ok", profiles, profiles')
          ELSE /\ UNCHANGED <<users, profiles, authTokens, nextKey>>
               /\ last' = Response("register", username, 0, out)

\* PasswordChangeView.post
PasswordChange(username, old_password, new_password, new_password_confirm) ==
    /\ IsAuthenticated(username)
    /\ UNCHANGED <<resetTokens, loginAttempts, clock, nextToken, pwSetBy>>
    /\ UNCHANGED concVars
    /\ LET out == PasswordChangeIsValid(users, username, old_password,
                                        new_password, new_password_confirm)
       IN IF out = "ok"
          THEN LET token == GetOrCreateAuthToken(
                       DeleteAuthTokensOf(authTokens, username),
                       username, nextKey + 1)
               IN /\ nextKey < MaxKeys
                  /\ users' = SetPassword(users, username, new_password)
                  /\ profiles' = SaveUserProfile(profiles, username)
                  /\ authTokens' = token
                  /\ nextKey' = nextKey + 1
                  /\ last' = ResponseCreating("change_password", username,
                        KeyOf(token, username), "ok", profiles, profiles')
          ELSE /\ UNCHANGED <<users, profiles, authTokens, nextKey>>
               /\ last' = Response("change_password", username, 0, out)

\* user_info: the profile, created when user.profile raises DoesNotExist
UserInfo(username) ==
    /\ IsAuthenticated(username)
    /\ profiles' = profiles \cup {username}
    /\ last' = ResponseCreating("user_info", username, 0, "ok",
                                profiles, profiles')
    /\ UNCHANGED <<users, authTokens, nextKey, resetTokens, loginAttempts,
                   clock, nextToken, pwSetBy>>
    /\ UNCHANGED concVars

\* UserProfileView (RetrieveUpdateAPIView): get_object returns
\* request.user.profile; RelatedObjectDoesNotExist is not handled and the
\* request ends as a server error.  The columns of the profile other than
\* its owner are not tracked.
UserProfileView(username, method) ==
    /\ IsAuthenticated(username)
    /\ last' = Response(method, username, 0,
                        IF username \in profiles THEN "ok" ELSE "ServerError")
    /\ UNCHANGED <<users, profiles, authTokens, nextKey, resetTokens,
                   loginAttempts, clock, nextToken, pwSetBy>>
    /\ UNCHANGED concVars

\* GET and PUT/PATCH of the profile endpoint
GetProfile(username) == UserProfileView(username, "get_profile")
UpdateProfile(username) == UserProfileView(username, "update_profile")

\* UserProfileAdmin: a staff member deletes a profile row in the admin site
AdminDeleteProfile(username) ==
    /\ username \in profiles
    /\ profiles' = profiles \ {username}
    /\ last' = Response("admin_delete_profile", username, 0, "ok")
    /\ UNCHANGED <<users, authTokens, nextKey, resetTokens, loginAttempts,
                   clock, nextToken, pwSetBy>>
    /\ UNCHANGED concVars

\* the clock advances
Tick ==
    /\ clock < MaxClock
    /\ clock' = clock + 1
    /\ UNCHANGED <<users, profiles, authTokens, nextKey, resetTokens, loginAttempts,
                   nextToken, pwSetBy, last>>
    /\ UNCHANGED concVars

Next ==
    \/ \E email \in Emails : PasswordResetRequest(email)
    \/ \E token \in TokenInputs, np \in Passwords, npc \in Passwords :
          PasswordResetConfirm(token, np, npc)
    \/ Tick

Spec == Init /\ [][Next]_vars

\* the session endpoints and the profile admin, one request at a time
NewUsernames == {"dave"}
NewEmails == {"dave@k.org", "alice@k.org"}
Callers == {"alice", "bob"}

NextAccount ==
    \/ \E username \in NewUsernames \cup {"alice"}, email \in NewEmails,
          password \in Passwords, password_confirm \in Passwords :
          Register(username, email, password, password_confirm)
    \/ \E username \in UsernameInputs, raw \in Passwords :
          Login(username, raw)
    \/ \E username \in Callers : Logout(username)
    \/ \E username \in Callers, old \in Passwords, np \in Passwords,
          npc \in Passwords : PasswordChange(username, old, np, npc)
    \/ \E username \in Callers : UserInfo(username)
    \/ \E username \in Callers : GetProfile(username)
    \/ \E username \in Callers : UpdateProfile(username)
    \/ \E username \in Callers : AdminDeleteProfile(username)

SpecAccount == Init /\ [][NextAccount]_vars

\* the audit table under the session endpoints and its admin
\* a LoginAttempt row the table holds from before this run
StoredAttempt == [username |-> "alice", success |-> TRUE, timestamp |-> 0]

InitAudit ==
    /\ InitTables
    /\ loginAttempts = <<StoredAttempt>>
    /\ InitWorkers

\* LoginAttemptAdmin: adding and changing are refused (has_add_permission,
\* has_change_permission); deleting is not, a staff member deletes row i
AdminDeleteLoginAttempt(i) ==
    /\ i \in 1..Len(loginAttempts)
    /\ loginAttempts' = [k \in 1..(Len(loginAttempts) - 1) |->
                            IF k < i THEN loginAttempts[k]
                            ELSE loginAttempts[k + 1]]
    /\ last' = Response("admin_delete_login_attempt", "", 0, "ok")
    /\ UNCHANGED <<users, profiles, authTokens, nextKey, resetTokens,
                   clock, nextToken, pwSetBy>>
    /\ UNCHANGED concVars

NextAudit ==
    \/ \E username \in UsernameInputs, raw \in Passwords :
          Login(username, raw)
    \/ \E username \in Callers : Logout(username)
    \/ \E username \in NewUsernames, email \in NewEmails,
          password \in Passwords, password_confirm \in Passwords :
          Register(username, email, password, password_confirm)
    \/ \E username \in Callers, old \in Passwords, np \in Passwords,
          npc \in Passwords : PasswordChange(username, old, np, npc)
    \/ \E i \in 1..Len(loginAttempts) : AdminDeleteLoginAttempt(i)

SpecAudit == InitAudit /\ [][NextAudit]_vars

\* the life of a reset token among the other requests of its account
\* the time between two requests: long enough for a token to expire
ElapseHours == {TokenLifetimeHours + 1}
Holder == "bob"

\* some hours pass between two requests
Elapse(h) ==
    /\ clock + h <= MaxClock
    /\ clock' = clock + h
    /\ UNCHANGED <<users, profiles, authTokens, nextKey, resetTokens,
                   loginAttempts, nextToken, pwSetBy, last>>
    /\ UNCHANGED concVars

NextLifecycle ==
    \/ \E email \in Emails : PasswordResetRequest(email)
    \/ \E token \in TokenInputs, np \in Passwords, npc \in Passwords :
          PasswordResetConfirm(token, np, npc)
    \/ \E raw \in Passwords : Login(Holder, raw)
    \/ \E username \in NewUsernames, email \in NewEmails,
          password \in Passwords :
          Register(username, email, password, password)
    \/ \E old \in Passwords, np \in Passwords :
          PasswordChange(Holder, old, np, np)
    \/ UserInfo(Holder)
    \/ AdminDeleteProfile(Holder)
    \/ \E h \in ElapseHours : Elapse(h)

SpecLifecycle == Init /\ [][NextLifecycle]_vars

\* ---------------------------------------------- requests served concurrently
\* Each worker runs one view at a time, one ORM statement per step.

\* PasswordResetRequestView.post up to the delete: is_valid(), the user, the
\* token string and expires_at
RqStart(p, email) ==
    /\ pc[p] = "idle"
    /\ UNCHANGED reg
    /\ served < MaxRequests
    /\ served' = served + 1
    /\ UNCHANGED <<dbVars, clock, pwSetBy, last>>
    /\ IF RequestOutcome(users, email) = "ok"
       THEN /\ nextToken < MaxTokens
            /\ clock <= MaxIssueClock
            /\ nextToken' = nextToken + 1
            /\ req' = [req EXCEPT ![p] =
                  Locals("request", UserByEmail(users, email), nextToken + 1,
                         "", "", clock + TokenLifetimeHours, NoRow)]
            /\ pc' = [pc EXCEPT ![p] = "rq_delete"]
       ELSE /\ UNCHANGED <<nextToken, pc>>
            /\ req' = [req EXCEPT ![p] =
                  Responded("request", email, 0,
                            RequestOutcome(users, email))]

\* PasswordResetToken.objects.filter(user=user).delete()
RqDelete(p) ==
    /\ pc[p] = "rq_delete"
    /\ UNCHANGED reg
    /\ resetTokens' = DeleteTokensOf(resetTokens, req[p].who)
    /\ pwSetBy' = {t \in pwSetBy : TokenRows(resetTokens', t) # {}}
    /\ pc' = [pc EXCEPT ![p] = "rq_create"]
    /\ UNCHANGED <<users, profiles, authTokens, nextKey, loginAttempts, clock,
                   nextToken, last, req, served>>

\* PasswordResetToken.objects.create(...), the mail and the response
RqCreate(p) ==
    /\ pc[p] = "rq_create"
    /\ UNCHANGED reg
    /\ resetTokens' = CreateToken(resetTokens, req[p].who, req[p].token,
                                  req[p].expires_at, clock)
    /\ pc' = [pc EXCEPT ![p] = "idle"]
    /\ req' = [req EXCEPT ![p] =
          Responded("request", req[p].who, req[p].token, "ok")]
    /\ UNCHANGED <<users, profiles, authTokens, nextKey, loginAttempts, clock,
                   nextToken, pwSetBy, last, served>>

\* PasswordResetConfirmView.post: serializer.is_valid()
CfStart(p, token, new_password, new_password_confirm) ==
    /\ pc[p] = "idle"
    /\ UNCHANGED reg
    /\ served < MaxRequests
    /\ served' = served + 1
    /\ UNCHANGED <<dbVars, clock, nextToken, pwSetBy, last>>
    /\ LET out == ConfirmIsValid(resetTokens, clock, token,
                                 new_password, new_password_confirm)
       IN IF out = "ok"
          THEN /\ req' = [req EXCEPT ![p] =
                     Locals("confirm", "", token, "", new_password, 0, NoRow)]
               /\ pc' = [pc EXCEPT ![p] = "cf_get"]
          ELSE /\ req' = [req EXCEPT ![p] =
                     Responded("confirm", "", token, out)]
               /\ UNCHANGED pc

\* token_obj = PasswordResetToken.objects.get(token=token); user =
\* token_obj.user.  DoesNotExist is not caught: the request ends in a 500
CfGet(p) ==
    /\ pc[p] = "cf_get"
    /\ UNCHANGED reg
    /\ UNCHANGED <<dbVars, clock, nextToken, pwSetBy, last, served>>
    /\ IF TokenRows(resetTokens, req[p].token) = {}
       THEN /\ req' = [req EXCEPT ![p] =
                  Responded("confirm", "", req[p].token, "ServerError")]
            /\ pc' = [pc EXCEPT ![p] = "idle"]
       ELSE /\ req' = [req EXCEPT ![p] =
                  [@ EXCEPT !.token_obj = GetToken(resetTokens, req[p].token),
                            !.who = GetToken(resetTokens, req[p].token).user]]
            /\ pc' = [pc EXCEPT ![p] = "cf_save_user"]

\* user.set_password(new_password); user.save()
CfSaveUser(p) ==
    /\ pc[p] = "cf_save_user"
    /\ UNCHANGED reg
    /\ users' = SetPassword(users, req[p].who, req[p].new_password)
    /\ profiles' = SaveUserProfile(profiles, req[p].who)
    /\ pwSetBy' = pwSetBy \cup {req[p].token}
    /\ pc' = [pc EXCEPT ![p] = "cf_save_token"]
    /\ UNCHANGED <<authTokens, nextKey, resetTokens, loginAttempts, clock, nextToken,
                   last, req, served>>

\* token_obj.is_used = True; token_obj.save(), and the response
CfSaveToken(p) ==
    /\ pc[p] = "cf_save_token"
    /\ UNCHANGED reg
    /\ resetTokens' = SaveToken(resetTokens,
                                [req[p].token_obj EXCEPT !.is_used = TRUE])
    /\ pc' = [pc EXCEPT ![p] = "idle"]
    /\ req' = [req EXCEPT ![p] =
          Responded("confirm", req[p].who, req[p].token, "ok")]
    /\ UNCHANGED <<users, profiles, authTokens, nextKey, loginAttempts, clock,
                   nextToken, pwSetBy, last, served>>

\* the worker dies between two statements; what it committed stays
Crash(p) ==
    /\ pc[p] # "idle"
    /\ UNCHANGED reg
    /\ pc' = [pc EXCEPT ![p] = "idle"]
    /\ req' = [req EXCEPT ![p] =
          Responded(req[p].op, req[p].who, req[p].token, "crashed")]
    /\ UNCHANGED <<dbVars, clock, nextToken, pwSetBy, last, served>>

NextConc ==
    \/ \E p \in Procs, email \in Emails : RqStart(p, email)
    \/ \E p \in Procs : RqDelete(p)
    \/ \E p \in Procs : RqCreate(p)
    \/ \E p \in Procs, token \in TokenInputs, np \in Passwords,
          npc \in Passwords : CfStart(p, token, np, npc)
    \/ \E p \in Procs : CfGet(p)
    \/ \E p \in Procs : CfSaveUser(p)
    \/ \E p \in Procs : CfSaveToken(p)
    \/ \E p \in Procs : Crash(p)

SpecConc == Init /\ [][NextConc]_vars

\* RegisterView.post up to the insert: serializer.is_valid()
RgStart(p, username, email, password, password_confirm) ==
    /\ pc[p] = "idle"
    /\ served < MaxRequests
    /\ served' = served + 1
    /\ UNCHANGED <<dbVars, clock, nextToken, pwSetBy, last>>
    /\ LET out == RegisterIsValid(users, username, email,
                                  password, password_confirm)
       IN IF out = "ok"
          THEN /\ reg' = [reg EXCEPT ![p] =
                     [username |-> username, email |-> email,
                      password |-> password]]
               /\ req' = [req EXCEPT ![p] =
                     Responded("register", username, 0, "")]
               /\ pc' = [pc EXCEPT ![p] = "rg_create"]
          ELSE /\ req' = [req EXCEPT ![p] =
                     Responded("register", username, 0, out)]
               /\ UNCHANGED <<reg, pc>>

\* serializer.save(): User.objects.create_user and its post_save signals;
\* the unique index of auth_user.username refuses a second row
\* (IntegrityError), the email column has no index
RgCreate(p) ==
    /\ pc[p] = "rg_create"
    /\ UNCHANGED <<authTokens, nextKey, resetTokens, loginAttempts, clock,
                   nextToken, pwSetBy, last, served>>
    /\ IF reg[p].username \in DOMAIN users
       THEN /\ req' = [req EXCEPT ![p] =
                  Responded("register", reg[p].username, 0, "ServerError")]
            /\ reg' = [reg EXCEPT ![p] = NoRegistration]
            /\ pc' = [pc EXCEPT ![p] = "idle"]
            /\ UNCHANGED <<users, profiles>>
       ELSE /\ users' = CreateUser(users, reg[p].username, reg[p].email,
                                   reg[p].password)
            /\ profiles' = SaveUserProfile(profiles, reg[p].username)
            /\ pc' = [pc EXCEPT ![p] = "rg_login"]
            /\ UNCHANGED <<req, reg>>

\* login(request, user), Token.objects.get_or_create, the response
RgLogin(p) ==
    /\ pc[p] = "rg_login"
    /\ LET username == reg[p].username
           token == GetOrCreateAuthToken(authTokens, username, nextKey + 1)
       IN /\ token # authTokens => nextKey < MaxKeys
          /\ profiles' = SaveUserProfile(profiles, username)
          /\ authTokens' = token
          /\ nextKey' = IF token = authTokens THEN nextKey ELSE nextKey + 1
          /\ req' = [req EXCEPT ![p] =
                Responded("register", username, KeyOf(token, username), "ok")]
    /\ reg' = [reg EXCEPT ![p] = NoRegistration]
    /\ pc' = [pc EXCEPT ![p] = "idle"]
    /\ UNCHANGED <<users, resetTokens, loginAttempts, clock, nextToken,
                   pwSetBy, last, served>>

RegisterUsernames == {"dave", "erin", "alice"}

NextRegister ==
    \/ \E p \in Procs, username \in RegisterUsernames, email \in NewEmails,
          password \in Passwords, password_confirm \in Passwords :
          RgStart(p, username, email, password, password_confirm)
    \/ \E p \in Procs : RgCreate(p)
    \/ \E p \in Procs : RgLogin(p)

SpecRegister == Init /\ [][NextRegister]_vars

NextLogin ==
    \/ \E username \in UsernameInputs, raw \in Passwords : Login(username, raw)
    \/ \E username \in Usernames : Logout(username)
    \/ Tick

SpecLogin == Init /\ [][NextLogin]_vars

\* ------------------------------------------------- properties, one at a time
ActiveTokensOf(u) == {r \in resetTokens : r.user = u /\ IsValid(r, clock)}

\* C1: each Account owns at most one active (unused, unexpired) reset token in
\* every state reached by requests and confirmations served one at a time
C1_AtMostOneActive ==
    \A u \in Usernames : Cardinality(ActiveTokensOf(u)) <= 1

\* a second token was issued to the owner of the first, which is gone
C1_Witness ==
    /\ nextToken = 2
    /\ \E r \in resetTokens : resetTokens = {r} /\ r.token = 2 /\ IsValid(r, clock)

\* C2: a confirmation that follows a successful confirmation of the same
\* token fails with TokenInvalid and leaves the passwords alone; the
\* successful one leaves the token marked used
C2_ConsumeTwice ==
    [][\A t \in TokenInputs :
          (/\ last'.op = "confirm" /\ last'.token = t
           /\ \E np \in Passwords, npc \in Passwords :
                 PasswordResetConfirm(t, np, npc)) =>
             /\ (last'.res = "ok" =>
                    \E r \in resetTokens' : r.token = t /\ r.is_used)
             /\ (last = Response("confirm", last.who, t, "ok") =>
                    /\ last'.res = "TokenInvalid"
                    /\ users' = users)]_vars

\* the second confirmation of a consumed token has been refused
C2_Witness ==
    /\ last.op = "confirm" /\ last.res = "TokenInvalid"
    /\ \E r \in resetTokens : r.token = last.token /\ r.is_used
                               /\ ~IsExpired(r, clock)

\* a reset request for email succeeds while its Account holds the active t1
Reissue(email, t1) ==
    /\ last' = Response("request", email, nextToken', "ok")
    /\ ValidateEmail(users, email)
    /\ \E r \in ActiveTokensOf(UserByEmail(users, email)) : r.token = t1
    /\ PasswordResetRequest(email)

\* C3 as stated: after a second token is issued to the Account, validating
\* the first fails with TokenInvalid and validating the second succeeds
C3_FirstTokenInvalid ==
    [][\A email \in Emails, t1 \in TokenInputs :
          Reissue(email, t1) =>
             /\ ValidateToken(resetTokens', clock', t1) = "TokenInvalid"
             /\ ValidateToken(resetTokens', clock', nextToken') = "ok"]_vars

\* C3 amended: after a second token is issued to the Account, validating the
\* first fails with TokenNotFound (its row is deleted) and validating the
\* second succeeds
C3_FirstTokenNotFound ==
    [][\A email \in Emails, t1 \in TokenInputs :
          Reissue(email, t1) =>
             /\ ValidateToken(resetTokens', clock', t1) = "TokenNotFound"
             /\ ValidateToken(resetTokens', clock', nextToken') = "ok"]_vars

\* the second token was issued while the first had neither expired nor been
\* used; the first no longer validates, the second does
C3_Witness ==
    /\ last.op = "request" /\ last.res = "ok" /\ last.token = 2
    /\ clock <= MaxIssueClock
    /\ \A r \in resetTokens : r.token = 2
    /\ ValidateToken(resetTokens, clock, 1) # "ok"
    /\ ValidateToken(resetTokens, clock, 2) = "ok"

\* C4: a stored token validates exactly when it is unused and the clock is at
\* most its issuance time + 24 hours, and fails with TokenInvalid otherwise
C4_ValidityWindow ==
    \A r \in resetTokens :
       /\ r.expires_at = r.created_at + TokenLifetimeHours
       /\ (ValidateToken(resetTokens, clock, r.token) = "ok") <=>
             (~r.is_used /\ clock <= r.created_at + TokenLifetimeHours)
       /\ ValidateToken(resetTokens, clock, r.token) \in {"ok", "TokenInvalid"}

\* one unused token validated at its expiry instant (succeeds) beside one
\* validated an hour after its own (fails)
C4_Witness ==
    \E r, q \in resetTokens :
       /\ ~r.is_used /\ clock = r.expires_at
       /\ ValidateToken(resetTokens, clock, r.token) = "ok"
       /\ ~q.is_used /\ clock = q.expires_at + 1
       /\ ValidateToken(resetTokens, clock, q.token) = "TokenInvalid"

\* the submitted credentials are those of a stored active Account
Matches(username, raw) ==
    /\ username \in DOMAIN users
    /\ CheckPassword(users[username], raw)
    /\ users[username].is_active

\* the audit store grew by exactly one record, for username with this outcome
Audited(username, success) ==
    /\ Len(loginAttempts') = Len(loginAttempts) + 1
    /\ SubSeq(loginAttempts', 1, Len(loginAttempts)) = loginAttempts
    /\ loginAttempts'[Len(loginAttempts')].username = username
    /\ loginAttempts'[Len(loginAttempts')].success = success

\* C5: every login with the credentials of a stored active Account succeeds
\* and adds exactly one LoginAttempt with success = true for that username
C5_SuccessfulLoginAudited ==
    [][\A username \in UsernameInputs, raw \in Passwords :
          Login(username, raw) /\ Matches(username, raw) =>
             last'.res = "ok" /\ Audited(username, TRUE)]_vars

\* C6: every login with invalid credentials fails, adds one LoginAttempt with
\* success = false carrying the submitted username, and changes no password
C6_FailedLoginAudited ==
    [][\A username \in UsernameInputs, raw \in Passwords :
          Login(username, raw) /\ ~Matches(username, raw)
             /\ (username \notin DOMAIN users
                   \/ ~CheckPassword(users[username], raw)) =>
             /\ last'.res # "ok"
             /\ Audited(username, FALSE)
             /\ \A u \in DOMAIN users : users'[u].password = users[u].password]_vars

\* worker p has written the password of a confirmation presenting token t
AppliedPassword(p, t) ==
    /\ req[p].op = "confirm" /\ req[p].token = t
    /\ \/ pc[p] = "cf_save_token"
       \/ pc[p] = "idle" /\ req[p].res = "ok"

\* C7: of two concurrent confirmations presenting the same valid token at
\* most one passes validation and sets the password
C7_OneConcurrentConsume ==
    \A p, q \in Procs, t \in TokenInputs :
       AppliedPassword(p, t) /\ AppliedPassword(q, t) => p = q

\* C8: once the concurrent reset requests for an Account have completed, the
\* Account has at most one active token
C8_OneActiveAfterConcurrentIssue ==
    (\A p \in Procs : pc[p] \notin {"rq_delete", "rq_create"}) =>
       \A u \in Usernames : Cardinality(ActiveTokensOf(u)) <= 1

\* no confirmation presenting t is between its two writes
Settled(t) ==
    \A p \in Procs : ~(pc[p] = "cf_save_token" /\ req[p].token = t)

\* C9: the new password and the used mark are persisted both or neither: no
\* stored token is consumable with the password already changed by it, nor
\* marked used with the password unchanged, a crash between the two writes
\* included
C9_PasswordAndMarkTogether ==
    \A r \in resetTokens :
       Settled(r.token) => (r.is_used <=> r.token \in pwSetBy)

\* the issue of a later token of the Account has completed: the record of
\* token t is deleted and the Account holds a token issued after t
Superseded(u, t) ==
    /\ TokenRows(resetTokens, t) = {}
    /\ \E r \in resetTokens : r.user = u /\ r.token > t

\* C10: once a later token of the Account has been issued, no write of a
\* confirmation presenting the earlier token changes the password or
\* re-creates the earlier token's record beside the later one
C10_SupersededTokenUnusable ==
    [][\A p \in Procs :
          /\ (CfSaveUser(p) /\ Superseded(req[p].who, req[p].token) =>
                users' = users)
          /\ (CfSaveToken(p) /\ Superseded(req[p].who, req[p].token) =>
                TokenRows(resetTokens', req[p].token) =
                   TokenRows(resetTokens, req[p].token))]_vars

\* ---------------------------------------------------------------------- C11
\* C11: a token resolves to the Account that requested it.  A token issued
\* by a reset request for an email validates, and its row belongs to the
\* Account with that email; a stored token never changes its Account; and a
\* successful confirm with a token sets the password of the token's Account
\* and leaves every other Account as it was.
C11_TokenResolvesToRequester ==
    [][/\ \A email \in Emails :
             (/\ last' = Response("request", email, nextToken', "ok")
              /\ PasswordResetRequest(email)) =>
                 /\ ValidateToken(resetTokens', clock', last'.token) = "ok"
                 /\ \E A \in DOMAIN users :
                       /\ users[A].email = email
                       /\ GetToken(resetTokens', last'.token).user = A
       /\ \A r \in resetTokens, q \in resetTokens' :
             r.token = q.token => r.user = q.user
       /\ \A t \in TokenInputs, np \in Passwords :
             (/\ last'.op = "confirm" /\ last'.token = t /\ last'.res = "ok"
              /\ PasswordResetConfirm(t, np, np)) =>
                 LET A == GetToken(resetTokens, t).user
                 IN /\ last'.who = A
                    /\ users'[A].password = MakePassword(np)
                    /\ \A B \in DOMAIN users \ {A} : users'[B] = users[B]
      ]_vars

\* bob's token, requested with bob's email, has changed bob's password and
\* nobody else's
C11_Witness ==
    /\ \E r \in resetTokens :
          /\ r.user = "bob" /\ r.is_used
          /\ last = Response("confirm", "bob", r.token, "ok")
    /\ users["bob"].password = MakePassword("pw2")
    /\ users["alice"].password = MakePassword("pw1")

\* ---------------------------------------------------------------------- C12
\* a token string handed out earlier that does not validate now: its row is
\* marked used, or is past its expires_at, or is gone
Dead(toks, now, t) == ValidateToken(toks, now, t) # "ok"

C13_OneProfilePerAccount ==
    [][(\A u \in DOMAIN users : ~AdminDeleteProfile(u)) =>
          /\ \A u \in DOMAIN users' :
                (u \notin DOMAIN users \/ u \in profiles) => u \in profiles'
          /\ \A u \in DOMAIN users :
                (/\ last'.who = u /\ last'.res = "ok"
                 /\ \/ UserInfo(u)
                    \/ \E raw \in Passwords : Login(u, raw)) =>
                   /\ u \in profiles'
                   /\ last'.created = (IF u \in profiles THEN 0 ELSE 1)
                   /\ profiles' \ {u} = profiles \ {u}
      ]_vars

\* user_info has created the missing Profile of an Account, a registered
\* Account has got its own, and every Account has one
C13_Witness ==
    /\ last.op = "user_info" /\ last.created = 1
    /\ DOMAIN users # Usernames
    /\ \A u \in DOMAIN users : u \in profiles

\* ---------------------------------------------------------------------- C14
\* C14: every profile access path creates the Profile lazily.  For an
\* authenticated Account without a Profile, a login with its credentials, a
\* user_info, a getProfile and an updateProfile each succeed and leave the
\* Account with its Profile.
C14_LazyProfileOnEveryPath ==
    [][\A u \in Callers :
          (/\ u \notin profiles
           /\ last'.who = u
           /\ \/ UserInfo(u)
              \/ GetProfile(u)
              \/ UpdateProfile(u)
              \/ \E raw \in Passwords :
                    LoginIsValid(users, u, raw) = "ok" /\ Login(u, raw)) =>
             /\ last'.res = "ok"
             /\ u \in profiles'
      ]_vars

\* ---------------------------------------------------------------------- C15
\* C15: the credential validator distinguishes its outcomes.  A login with
\* an unknown username or a wrong password fails with InvalidCredentials, a
\* login with the right password of an inactive Account fails with
\* AccountDisabled, and every other login succeeds.
C15_ValidatorOutcomes ==
    [][\A u \in UsernameInputs, raw \in Passwords :
          (/\ last'.op = "login" /\ last'.who = u
           /\ Login(u, raw)) =>
             last'.res =
                IF u \notin DOMAIN users \/ ~CheckPassword(users[u], raw)
                THEN "InvalidCredentials"
                ELSE IF ~users[u].is_active THEN "AccountDisabled"
                ELSE "ok"
      ]_vars

\* ---------------------------------------------------------------------- C16
\* C16: a reset request does not tell whether an email belongs to an
\* Account.  The response for the email of an active Account is the one the
\* same request gets in the state that differs only in that Account not
\* being active.
C16_NoEmailLeak ==
    [][\A email \in Emails :
          (/\ last'.op = "request" /\ last'.who = email
           /\ PasswordResetRequest(email)) =>
             \A A \in DOMAIN users :
                (users[A].email = email /\ users[A].is_active) =>
                   last'.res =
                      RequestOutcome(
                         [users EXCEPT ![A].is_active = FALSE], email)
      ]_vars

\* ---------------------------------------------------------------------- C17
\* C17: recording a login attempt never blocks the login.  When writing the
\* LoginAttempt raises, the login answers what the credential check
\* decided, and a successful login has logged the Account in: its Profile
\* and its token are stored and the token is in the response.
C17_AuditNeverBlocks ==
    [][\A u \in UsernameInputs, raw \in Passwords :
          (/\ LogLoginAttemptRaises # "none"
           /\ last'.op = "login" /\ last'.who = u
           /\ Login(u, raw)) =>
             /\ last'.res = LoginIsValid(users, u, raw)
             /\ last'.res = "ok" =>
                   /\ u \in profiles'
                   /\ AuthTokensOf(authTokens', u) # {}
                   /\ last'.token = KeyOf(authTokens', u)
      ]_vars

\* a login has succeeded although its LoginAttempt was not written
C17_Witness ==
    /\ LogLoginAttemptRaises # "none"
    /\ loginAttempts = <<>>
    /\ last.op = "login" /\ last.res = "ok"
    /\ last.token = KeyOf(authTokens, last.who)

C19_ChangePassword ==
    [][\A u \in Callers, old \in Passwords, np \in Passwords,
          npc \in Passwords :
          (/\ last'.op = "change_password" /\ last'.who = u
           /\ PasswordChange(u, old, np, npc)) =>
             /\ last'.res \in {"ok", "PasswordMismatch", "WrongOldPassword"}
             /\ last'.res = "ok" <=>
                   (CheckPassword(users[u], old) /\ np = npc)
             /\ last'.res = "ok" =>
                   /\ users'[u].password = MakePassword(np)
                   /\ AuthTokensOf(authTokens, u) \cap authTokens' = {}
                   /\ AuthTokensOf(authTokens', u) =
                         {[user |-> u, key |-> last'.token]}
                   /\ last'.token > nextKey
             /\ last'.res # "ok" =>
                   /\ users' = users
                   /\ authTokens' = authTokens
      ]_vars

\* bob has changed his password and holds the new token only
C19_Witness ==
    /\ last.op = "change_password" /\ last.who = "bob" /\ last.res = "ok"
    /\ users["bob"].password = MakePassword("pw2")
    /\ AuthTokensOf(authTokens, "bob") =
          {[user |-> "bob", key |-> last.token]}
    /\ last.token > 1

\* ---------------------------------------------------------------------- C20
\* C20: usernames and emails stay unique across Accounts.  Whatever
\* register requests have run, one after the other or interleaved, no two
\* Accounts have the same email (Accounts are keyed by their username).
C20_UniqueUsernamesEmails ==
    \A a \in DOMAIN users, b \in DOMAIN users :
        users[a].email = users[b].email => a = b

\* ---------------------------------------------------------------------- C21
\* C21: a failed confirm changes nothing.  When the token of a confirm is
\* not found, is used or expired, or the new password differs from its
\* confirmation, the confirm is refused and every Account and every
\* PasswordResetToken row, its used flag included, is as it was before.
C21_FailedConfirmChangesNothing ==
    [][\A t \in TokenInputs, np \in Passwords, npc \in Passwords :
          (/\ last'.op = "confirm" /\ last'.token = t
           /\ (ValidateToken(resetTokens, clock, t) # "ok" \/ np # npc)
           /\ PasswordResetConfirm(t, np, npc)) =>
             /\ last'.res \in {"TokenNotFound", "TokenInvalid",
                               "PasswordMismatch"}
             /\ users' = users
             /\ resetTokens' = resetTokens
      ]_vars

\* a confirm was refused for its passwords: the token is still unused and
\* its Account has the password it had
C21_Witness ==
    /\ last.op = "confirm" /\ last.res = "PasswordMismatch"
    /\ \E r \in resetTokens :
          /\ r.token = last.token /\ ~r.is_used
          /\ users[r.user].password = MakePassword("pw1")
====
